---- MODULE Spec2Model ----
(***************************************************************************)
(* Complex trace attributes of d2geo (attributes/ComplexTrace.py).         *)
(*                                                                         *)
(* Five views of ComplexAttributes are modelled:                           *)
(*   SpecShape : the block layout (chunk sizes per axis) of the array each *)
(*               attribute builds, through create_array, the per-block     *)
(*               maps, the trims and the elementwise combinations;         *)
(*   SpecHalo  : the samples of a volume through create_array (overlap)    *)
(*               and util.trim_dask_array;                                 *)
(*   SpecTrace : the samples of one fast-axis trace through the peak-pick  *)
(*               attributes and relative_amplitude_change (SpecRac);       *)
(*   SpecOps   : the array operations of an attribute, statement by        *)
(*               statement, with the halo extensions each volume carries;  *)
(*   SpecBlock : the (i, j) loop of the peak-pick operation() over the     *)
(*               traces of one block, in two runs.                         *)
(***************************************************************************)
EXTENDS Integers, Sequences, FiniteSets, TLC

VARIABLES pc, attr, chunks, kernel, res,
          boundary, vol, ext, cb, out,
          env, comp, troughs, writes, picked, result,
          todo, stack,
          chunk1, chunk2, chunk3, outs, visited, focus

vars == <<pc, attr, chunks, kernel, res,
          boundary, vol, ext, cb, out,
          env, comp, troughs, writes, picked, result,
          todo, stack,
          chunk1, chunk2, chunk3, outs, visited, focus>>

shapeVars == <<chunks, kernel, res>>
haloVars  == <<boundary, vol, ext, cb, out>>
traceVars == <<env, comp, troughs, writes, picked, result>>
opsVars   == <<todo, stack>>
blockVars == <<chunk1, chunk2, chunk3, outs, visited, focus>>

(***************************************************************************)
(* Bounds of the model.                                                    *)
(***************************************************************************)
\* blocks per axis of an input volume
MaxBlocks == 2
\* samples of a trace in SpecTrace, and of the fast axis in SpecHalo
MaxLen == 4
\* largest envelope sample in SpecTrace
MaxEnv == 2

(***************************************************************************)
(* Sequences and layouts.                                                  *)
(***************************************************************************)
RECURSIVE SumSeq(_)
SumSeq(s) == IF s = <<>> THEN 0 ELSE Head(s) + SumSeq(Tail(s))

\* all sequences of length 1..n over S
SeqsUpTo(S, n) == UNION {[1..m -> S] : m \in 1..n}

\* a layout is darray.chunks: per axis, the sequence of chunk sizes
Shape(c) == [a \in 1..3 |-> SumSeq(c[a])]
NumBlocks(c) == [a \in 1..3 |-> Len(c[a])]

\* kernel=None
NoKernel == <<>>
\* the default operator size of every attribute
DefaultKernel == <<1, 1, 25>>

\* an array under construction: its layout, or the error raised building it
Arr(c) == [chunks |-> c, err |-> "none"]
Failed(e) == [chunks |-> <<<<>>, <<>>, <<>>>>, err |-> e]

(***************************************************************************)
(* create_array and the array runtime's primitives, on layouts.            *)
(***************************************************************************)
\* hw = tuple(np.array(kernel) // 2)
HalfWindowBug(k) == [a \in 1..3 |-> k[a]]
HalfWindow(k) == [a \in 1..3 |-> k[a] \div 2]

\* da.overlap.overlap(darray, depth=hw, boundary='reflect'): every block grows
\* by the depth on both sides, the outermost ones by the boundary fill
OverlapChunks(c, hw) ==
    [a \in 1..3 |-> [b \in 1..Len(c[a]) |-> c[a][b] + 2 * hw[a]]]

\* create_array(darray, kernel): ghost the array if a kernel is given
CreateArray(x, k) ==
    IF x.err # "none" \/ k = NoKernel THEN x
    ELSE Arr(OverlapChunks(x.chunks, HalfWindow(k)))

\* util.trim_dask_array(in_data, kernel): removes kernel[axis] // 2 samples from
\* each side of every block along every axis
TrimHalfWindow(k) == [a \in 1..3 |-> k[a] \div 2]
TrimChunks(c, hw) ==
    [a \in 1..3 |-> [b \in 1..Len(c[a]) |-> c[a][b] - 2 * hw[a]]]
TrimDaskArray(x, k) ==
    IF x.err # "none" THEN x ELSE Arr(TrimChunks(x.chunks, TrimHalfWindow(k)))

\* darray.map_blocks(f), da.absolute, da.angle, da.rad2deg, da.clip, ...: one
\* output block per input block, of the same size
MapBlocks(x) == x

\* SignalProcess.first_derivative(darray, axis=-1): output shape equals input shape
FirstDerivative(x) == x

\* numpy broadcasting of two operand shapes
Broadcastable(s, t) == \A a \in 1..3 : s[a] = t[a] \/ s[a] = 1 \/ t[a] = 1

\* an elementwise operation of two arrays (x / y, da.hypot(x, y)): the operands
\* are broadcast against each other, or the runtime raises ValueError
Combine(x, y) ==
    IF x.err # "none" THEN x
    ELSE IF y.err # "none" THEN y
    ELSE IF ~Broadcastable(Shape(x.chunks), Shape(y.chunks)) THEN Failed("ValueError")
    ELSE Arr([a \in 1..3 |->
                IF Shape(x.chunks)[a] >= Shape(y.chunks)[a]
                THEN x.chunks[a] ELSE y.chunks[a]])

(***************************************************************************)
(* The attributes, on layouts.                                             *)
(***************************************************************************)
Hilbert(x, k) == TrimDaskArray(MapBlocks(CreateArray(x, k)), k)

Envelope(x, k) == TrimDaskArray(MapBlocks(MapBlocks(CreateArray(x, k))), k)

InstantaneousPhase(x, k) == TrimDaskArray(MapBlocks(MapBlocks(CreateArray(x, k))), k)

CosineInstantaneousPhase(x, k) ==
    MapBlocks(InstantaneousPhase(CreateArray(x, NoKernel), k))

RelativeAmplitudeChange(x, k) ==
    LET e == Envelope(CreateArray(x, NoKernel), k)
    IN  MapBlocks(Combine(FirstDerivative(e), e))

AmplitudeAcceleration(x, k) ==
    FirstDerivative(RelativeAmplitudeChange(CreateArray(x, NoKernel), k))

\* the array is ghosted with kernel (1,1,25) and handed on, still ghosted, to
\* instantaneous_phase; nothing trims this first ghosting
InstantaneousFrequency(x, k) ==
    LET d == CreateArray(x, DefaultKernel)
    IN  MapBlocks(FirstDerivative(MapBlocks(MapBlocks(InstantaneousPhase(d, k)))))

InstantaneousBandwidth(x, k) ==
    MapBlocks(RelativeAmplitudeChange(CreateArray(x, NoKernel), k))

DominantFrequency(x, k) ==
    LET d == CreateArray(x, NoKernel)
    IN  Combine(InstantaneousFrequency(d, k), InstantaneousBandwidth(d, k))

FrequencyChange(x, k) ==
    FirstDerivative(InstantaneousFrequency(CreateArray(x, NoKernel), k))

Sweetness(x, k) ==
    LET d == CreateArray(x, NoKernel)
    IN  Combine(Envelope(d, k), MapBlocks(InstantaneousFrequency(d, k)))

QualityFactor(x, k) ==
    LET d == CreateArray(x, NoKernel)
    IN  Combine(MapBlocks(InstantaneousFrequency(d, k)), RelativeAmplitudeChange(d, k))

(***************************************************************************)
(* The peak-pick attributes, on layouts.                                   *)
(***************************************************************************)
SameShape(x, y) == Shape(x.chunks) = Shape(y.chunks)

\* da.map_blocks(operation, env, companion, troughs): no shape is compared by
\* the attribute; the runtime lines the operands' blocks up and raises
\* ValueError when their chunks do not add up to the same extents
MapBlocks3(x, y, z) ==
    IF x.err # "none" THEN x
    ELSE IF y.err # "none" THEN y
    ELSE IF z.err # "none" THEN z
    ELSE IF SameShape(x, y) /\ SameShape(x, z) THEN Arr(x.chunks)
    ELSE Failed("ValueError")

\* troughs = env.map_blocks(util.local_events, ...).cumsum(axis=-1)
TroughsArr(e) == MapBlocks(MapBlocks(e))

\* result = da.map_blocks(operation, env, companion, troughs);
\* result[da.isnan(result)] = 0
PeakPickArr(e, c) == MapBlocks(MapBlocks3(e, c, TroughsArr(e)))

\* the reference (envelope) and the companion each peak-pick attribute builds
ReferenceArr(name, x, k) == Envelope(CreateArray(x, NoKernel), k)

CompanionArr(name, x, k) ==
    LET d == CreateArray(x, NoKernel)
    IN  CASE name = "response_phase" -> InstantaneousPhase(d, k)
          [] name = "response_frequency" -> InstantaneousFrequency(d, k)
          [] OTHER -> d

ResponsePhase(x, k) ==
    PeakPickArr(ReferenceArr("response_phase", x, k),
                CompanionArr("response_phase", x, k))

ResponseFrequency(x, k) ==
    PeakPickArr(ReferenceArr("response_frequency", x, k),
                CompanionArr("response_frequency", x, k))

ResponseAmplitude(x, k) ==
    PeakPickArr(ReferenceArr("response_amplitude", x, k),
                CompanionArr("response_amplitude", x, k))

ApparentPolarity(x, k) ==
    PeakPickArr(ReferenceArr("apparent_polarity", x, k),
                CompanionArr("apparent_polarity", x, k))

PeakPickAttrs ==
    {"response_phase", "response_frequency", "response_amplitude", "apparent_polarity"}

(***************************************************************************)
(* SpecShape: an attribute is called on a chunked volume.                  *)
(***************************************************************************)
\* chunk sizes of the slow and cross axes, and of the fast axis (a block holds
\* the half window 12 of the default kernel)
SideChunkSizes == {1, 2}
FastChunkSizes == {12, 13, 30}
\* odd operator extents
SideKernels == {1, 3}
FastKernels == {1, 3, 25}

NoArr == Failed("unset")

IdleHalo ==
    /\ boundary = "reflect" /\ vol = <<>> /\ ext = <<>> /\ cb = "none" /\ out = <<>>
IdleTrace ==
    /\ env = <<>> /\ comp = <<>> /\ troughs = <<>> /\ writes = <<>>
    /\ picked = <<>> /\ result = <<>>
IdleOps ==
    /\ todo = <<>> /\ stack = <<>>
IdleBlock ==
    /\ chunk1 = <<>> /\ chunk2 = <<>> /\ chunk3 = <<>>
    /\ outs = <<>> /\ visited = <<>> /\ focus = <<>>

InitShape ==
    /\ pc = "ready"
    /\ attr = "none"
    /\ chunks \in {<<c1, c2, c3>> : c1 \in SeqsUpTo(SideChunkSizes, MaxBlocks),
                                  c2 \in SeqsUpTo(SideChunkSizes, MaxBlocks),
                                  c3 \in SeqsUpTo(FastChunkSizes, MaxBlocks)}
    /\ kernel \in {<<k1, k2, k3>> : k1 \in SideKernels, k2 \in SideKernels,
                                  k3 \in FastKernels}
    /\ res = NoArr
    /\ IdleHalo
    /\ IdleTrace
    /\ IdleOps
    /\ IdleBlock

\* the attribute `name` is called on the volume and returns (or raises)
Returns(name, r) ==
    /\ pc = "ready"
    /\ pc' = "done"
    /\ attr' = name
    /\ res' = r
    /\ UNCHANGED <<chunks, kernel>>
    /\ UNCHANGED haloVars
    /\ UNCHANGED traceVars
    /\ UNCHANGED opsVars
    /\ UNCHANGED blockVars

CallHilbert == Returns("hilbert", Hilbert(Arr(chunks), kernel))
CallEnvelope == Returns("envelope", Envelope(Arr(chunks), kernel))
CallInstantaneousPhase ==
    Returns("instantaneous_phase", InstantaneousPhase(Arr(chunks), kernel))
CallCosineInstantaneousPhase ==
    Returns("cosine_instantaneous_phase", CosineInstantaneousPhase(Arr(chunks), kernel))
CallRelativeAmplitudeChange ==
    Returns("relative_amplitude_change", RelativeAmplitudeChange(Arr(chunks), kernel))
CallAmplitudeAcceleration ==
    Returns("amplitude_acceleration", AmplitudeAcceleration(Arr(chunks), kernel))
CallInstantaneousFrequency ==
    Returns("instantaneous_frequency", InstantaneousFrequency(Arr(chunks), kernel))
CallInstantaneousBandwidth ==
    Returns("instantaneous_bandwidth", InstantaneousBandwidth(Arr(chunks), kernel))
CallDominantFrequency ==
    Returns("dominant_frequency", DominantFrequency(Arr(chunks), kernel))
CallFrequencyChange ==
    Returns("frequency_change", FrequencyChange(Arr(chunks), kernel))
CallSweetness == Returns("sweetness", Sweetness(Arr(chunks), kernel))
CallQualityFactor == Returns("quality_factor", QualityFactor(Arr(chunks), kernel))
CallResponsePhase == Returns("response_phase", ResponsePhase(Arr(chunks), kernel))
CallResponseFrequency ==
    Returns("response_frequency", ResponseFrequency(Arr(chunks), kernel))
CallResponseAmplitude ==
    Returns("response_amplitude", ResponseAmplitude(Arr(chunks), kernel))
CallApparentPolarity ==
    Returns("apparent_polarity", ApparentPolarity(Arr(chunks), kernel))

NextShape ==
    \/ CallHilbert
    \/ CallEnvelope
    \/ CallInstantaneousPhase
    \/ CallCosineInstantaneousPhase
    \/ CallRelativeAmplitudeChange
    \/ CallAmplitudeAcceleration
    \/ CallInstantaneousFrequency
    \/ CallInstantaneousBandwidth
    \/ CallDominantFrequency
    \/ CallFrequencyChange
    \/ CallSweetness
    \/ CallQualityFactor
    \/ CallResponsePhase
    \/ CallResponseFrequency
    \/ CallResponseAmplitude
    \/ CallApparentPolarity

SpecShape == InitShape /\ [][NextShape]_vars

\* the public attribute functions the shape contract names
PublicAttrs ==
    {"hilbert", "envelope", "instantaneous_phase", "relative_amplitude_change",
     "instantaneous_frequency", "instantaneous_bandwidth", "dominant_frequency",
     "frequency_change", "sweetness", "quality_factor"} \cup PeakPickAttrs

\* C1: every public attribute returns a volume of exactly the input's logical
\* shape, for every chunking and every odd kernel; in particular no elementwise
\* combination inside an attribute meets operands of different shapes (no
\* error is raised building the result).
C1_ShapePreserved ==
    (pc = "done" /\ attr \in PublicAttrs) =>
        /\ res.err = "none"
        /\ Shape(res.chunks) = Shape(chunks)

\* the attributes whose halo is trimmed with the kernel that ghosted it do
\* return the input's shape
ShapePreservedWhereTrimmed ==
    (pc = "done" /\ attr \in {"hilbert", "envelope", "instantaneous_phase",
                              "relative_amplitude_change", "instantaneous_bandwidth",
                              "response_phase", "response_amplitude",
                              "apparent_polarity"}) =>
        /\ res.err = "none"
        /\ res.chunks = chunks

\* instantaneous_frequency returns the fast axis longer by 2 * 12 per block
FrequencyShapeGrows ==
    (pc = "done" /\ attr = "instantaneous_frequency") =>
        /\ res.err = "none"
        /\ Shape(res.chunks)[3] = Shape(chunks)[3] + 24 * NumBlocks(chunks)[3]

\* C8: when the companion's shape differs from the reference envelope's, a
\* peak-pick attribute raises ShapeMismatchError at call time.
C8_ShapeMismatchRejected ==
    (/\ pc = "done"
     /\ attr \in PeakPickAttrs
     /\ ~SameShape(ReferenceArr(attr, Arr(chunks), kernel),
                   CompanionArr(attr, Arr(chunks), kernel))) =>
        res.err = "ShapeMismatchError"

\* no attribute ever raises ShapeMismatchError: the only refusal is the runtime's
NeverShapeMismatchError == res.err # "ShapeMismatchError"

(***************************************************************************)
(* SpecHalo: the samples of a volume through create_array and trim.        *)
(*                                                                         *)
(* The input volume V holds a different value at every index: V[i,j,k] is  *)
(* the triple <<i,j,k>>. Overlap and trim gather along each axis           *)
(* separately, so an array is kept as its layout and, per axis, the        *)
(* sequence telling for every position which index of V it holds (src, 0   *)
(* for a constant fill), whether it lies in a block's halo, and whether    *)
(* the boundary policy filled it.                                          *)
(***************************************************************************)
\* side-axis extent of the volumes of SpecHalo
MaxSide == 2

Boundaries == {"reflect", "nearest", "periodic", "constant"}
Callbacks == {"identity", "scribble_boundary", "scribble_halo"}

Junk == <<0, 0, 0>>
FillValue == <<0, 0, 1>>

Clamp(g, n) == IF g < 1 THEN 1 ELSE IF g > n THEN n ELSE g

\* the index of V the boundary policy reads for position g outside 1..n
BoundarySource(g, n, bnd) ==
    CASE bnd = "reflect" -> Clamp(IF g < 1 THEN 1 - g ELSE 2 * n + 1 - g, n)
      [] bnd = "nearest" -> Clamp(g, n)
      [] bnd = "periodic" -> Clamp(IF g < 1 THEN g + n ELSE g - n, n)
      [] OTHER -> 0

\* first index (1-based) of block b of an axis with chunk sizes c
RECURSIVE BlockStart(_, _)
BlockStart(c, b) == IF b = 1 THEN 1 ELSE BlockStart(c, b - 1) + c[b - 1]

\* the block holding position q of an axis with chunk sizes c
RECURSIVE BlockOf(_, _)
BlockOf(c, q) == IF q <= Head(c) THEN 1 ELSE 1 + BlockOf(Tail(c), q - Head(c))

\* the volume as given: every position holds its own index
PlainAxis(n) == [q \in 1..n |-> [src |-> q, halo |-> FALSE, fill |-> FALSE]]
PlainVolume(c) ==
    [chunks |-> c, axes |-> [a \in 1..3 |-> PlainAxis(SumSeq(c[a]))], cb |-> "identity"]

\* da.overlap.overlap along one axis: block b, of c[b] samples, becomes the
\* c[b] + 2h samples around it, read from the neighbouring blocks or, past the
\* ends of the axis, from the boundary policy
OverlapAxis(x, c, h, bnd) ==
    LET n  == SumSeq(c)
        cc == [b \in 1..Len(c) |-> c[b] + 2 * h]
    IN  [q \in 1..SumSeq(cc) |->
            LET b == BlockOf(cc, q)
                p == q - BlockStart(cc, b) + 1
                g == BlockStart(c, b) - h + p - 1
            IN  IF g < 1 \/ g > n
                THEN [src |-> IF BoundarySource(g, n, bnd) = 0 THEN 0
                              ELSE x[BoundarySource(g, n, bnd)].src,
                      halo |-> TRUE, fill |-> TRUE]
                ELSE [src |-> x[g].src,
                      halo |-> x[g].halo \/ p <= h \/ p > c[b] + h,
                      fill |-> x[g].fill]]

\* create_array(darray, kernel, boundary=bnd) on samples
CreateArrayData(x, k, bnd) ==
    IF k = NoKernel THEN x
    ELSE [chunks |-> OverlapChunks(x.chunks, HalfWindow(k)),
          axes |-> [a \in 1..3 |->
                      OverlapAxis(x.axes[a], x.chunks[a], HalfWindow(k)[a], bnd)],
          cb |-> x.cb]

\* darray.map_blocks(self.hilbert_cb): the caller's per-block callback; it
\* keeps each block's shape and writes what it likes into the block
MapHilbertCb(x, c) == [x EXCEPT !.cb = c]

\* trimming one axis: block b, of c[b] samples, keeps its samples h+1 .. c[b]-h
TrimAxis(x, c, h) ==
    LET cc == [b \in 1..Len(c) |-> c[b] - 2 * h]
    IN  [q \in 1..SumSeq(cc) |->
            LET b == BlockOf(cc, q)
                p == q - BlockStart(cc, b) + 1
            IN  x[BlockStart(c, b) + h + p - 1]]

\* util.trim_dask_array(in_data, kernel) on samples
TrimDaskArrayData(x, k) ==
    [chunks |-> TrimChunks(x.chunks, TrimHalfWindow(k)),
     axes |-> [a \in 1..3 |-> TrimAxis(x.axes[a], x.chunks[a], TrimHalfWindow(k)[a])],
     cb |-> x.cb]

\* the sample of array x at position q = <<q1, q2, q3>>
CellValue(x, q) ==
    LET fill == \E a \in 1..3 : x.axes[a][q[a]].fill
        halo == \E a \in 1..3 : x.axes[a][q[a]].halo
    IN  IF (x.cb = "scribble_boundary" /\ fill) \/ (x.cb = "scribble_halo" /\ halo)
        THEN Junk
        ELSE IF \E a \in 1..3 : x.axes[a][q[a]].src = 0 THEN FillValue
        ELSE [a \in 1..3 |-> x.axes[a][q[a]].src]

Positions(c) == (1..SumSeq(c[1])) \X (1..SumSeq(c[2])) \X (1..SumSeq(c[3]))

\* chunkings of an axis of at most n samples in at most MaxBlocks blocks
Chunkings(n) == {c \in SeqsUpTo(1..n, MaxBlocks) : SumSeq(c) <= n}

NoData == [chunks |-> <<<<>>, <<>>, <<>>>>, axes |-> <<<<>>, <<>>, <<>>>>, cb |-> "none"]

InitHalo ==
    /\ pc = "ready"
    /\ attr = "none"
    /\ chunks \in {<<c1, c2, c3>> : c1 \in Chunkings(MaxSide), c2 \in Chunkings(MaxSide),
                                  c3 \in Chunkings(MaxLen)}
    /\ kernel \in {<<k1, k2, k3>> : k1 \in SideKernels, k2 \in SideKernels,
                                  k3 \in {1, 3, 5}}
    \* the half window fits in every block
    /\ \A a \in 1..3 : \A b \in 1..Len(chunks[a]) : kernel[a] \div 2 <= chunks[a][b]
    /\ res = NoArr
    /\ boundary \in Boundaries
    /\ vol = PlainVolume(chunks)
    /\ ext = NoData
    /\ cb = "none"
    /\ out = NoData
    /\ IdleTrace
    /\ IdleOps
    /\ IdleBlock

\* darray, chunks_init = self.create_array(darray, kernel, boundary=boundary)
GhostVolume ==
    /\ pc = "ready"
    /\ pc' = "ghosted"
    /\ ext' = CreateArrayData(vol, kernel, boundary)
    /\ UNCHANGED <<attr, boundary, vol, cb, out>>
    /\ UNCHANGED shapeVars
    /\ UNCHANGED traceVars
    /\ UNCHANGED opsVars
    /\ UNCHANGED blockVars

\* analytical_trace = darray.map_blocks(self.hilbert_cb, ...)
RunHilbertCb ==
    /\ pc = "ghosted"
    /\ \E c \in Callbacks :
          /\ cb' = c
          /\ ext' = MapHilbertCb(ext, c)
    /\ pc' = "mapped"
    /\ UNCHANGED <<attr, boundary, vol, out>>
    /\ UNCHANGED shapeVars
    /\ UNCHANGED traceVars
    /\ UNCHANGED opsVars
    /\ UNCHANGED blockVars

\* result = util.trim_dask_array(analytical_trace, kernel)
TrimVolume ==
    /\ pc \in {"ghosted", "mapped"}
    /\ pc' = "done"
    /\ out' = TrimDaskArrayData(ext, kernel)
    /\ UNCHANGED <<attr, boundary, vol, ext, cb>>
    /\ UNCHANGED shapeVars
    /\ UNCHANGED traceVars
    /\ UNCHANGED opsVars
    /\ UNCHANGED blockVars

NextHalo ==
    \/ GhostVolume
    \/ RunHilbertCb
    \/ TrimVolume

SpecHalo == InitHalo /\ [][NextHalo]_vars

\* C2: ghosting a volume with half window kernel // 2 (any boundary policy) and
\* trimming it with the same kernel gives back the volume: the same layout and
\* the same sample at every index, whatever the per-block callback wrote into
\* the halo in between.
C2_HaloRoundTrip ==
    pc = "done" =>
        /\ out.chunks = chunks
        /\ \A q \in Positions(chunks) : CellValue(out, q) = q

\* a volume of several blocks along the fast axis was ghosted by 1 or more
\* samples, had its halo overwritten, and was trimmed
C2_Witness ==
    /\ pc = "done"
    /\ cb = "scribble_halo"
    /\ Len(chunks[3]) > 1
    /\ kernel[3] >= 3
    /\ boundary = "reflect"
    /\ \E q \in Positions(ext.chunks) : CellValue(ext, q) = Junk

(***************************************************************************)
(* SpecTrace: the samples of one trace (fixed i, j) along the fast axis.   *)
(*                                                                         *)
(* The envelope is what the caller's hilbert_cb makes it: any sequence of  *)
(* non-negative samples. The companion holds 1 everywhere but at one       *)
(* marked sample, which is -1, 0 or NaN. The fast axis is cut in blocks by *)
(* chunks[3]; the kernel is (1,1,1), so envelope and phase carry no halo. *)
(***************************************************************************)
NaN == 99

\* the blocks of a trace x cut by the chunk sizes c
BlockSeq(x, c, b) == SubSeq(x, BlockStart(c, b), BlockStart(c, b) + c[b] - 1)

\* the blocks' results put back in place
RECURSIVE Concat(_)
Concat(blocks) == IF blocks = <<>> THEN <<>> ELSE Head(blocks) \o Concat(Tail(blocks))

\* util.local_events(in_data, comparator=less) on one block: a sample is
\* flagged when it is strictly less than both neighbours; the block's first
\* and last samples are never flagged
LocalEvents(x) ==
    [i \in 1..Len(x) |->
        IF 1 < i /\ i < Len(x) /\ x[i] < x[i - 1] /\ x[i] < x[i + 1] THEN 1 ELSE 0]

\* env.map_blocks(util.local_events, comparator=self.xp.less): block by block,
\* the blocks not ghosted
LocalEventsBlocks(x, c) ==
    Concat([b \in 1..Len(c) |-> LocalEvents(BlockSeq(x, c, b))])

\* troughs.cumsum(axis=-1): the running sum along the whole fast axis
CumSum(x) == [i \in 1..Len(x) |-> SumSeq(SubSeq(x, 1, i))]

\* self.xp.unique(chunk3[i, j, :])
Unique(x) == {x[i] : i \in 1..Len(x)}

\* self.xp.where(chunk3[i, j, :] == ii)[0]
WhereAtLeast(x, ii) == {i \in 1..Len(x) : x[i] >= ii}
Where(x, ii) == {i \in 1..Len(x) : x[i] = ii}

\* idx[chunk1[i, j, idx].argmax()]: the first index of idx holding the maximum
Peak(x, idx) ==
    CHOOSE p \in idx :
        /\ \A i \in idx : x[i] <= x[p]
        /\ \A i \in idx : x[i] = x[p] => p <= i

\* self.xp.sign
Sign(v) == IF v = NaN THEN NaN ELSE IF v > 0 THEN 1 ELSE IF v < 0 THEN -1 ELSE 0

Times(u, v) == IF u = NaN \/ v = NaN THEN NaN ELSE u * v

\* the value operation() writes over a segment whose peak is p
Broadcast(mode, c1, c2, p) ==
    IF mode = "signed-peak" THEN Times(c1[p], Sign(c2[p])) ELSE c2[p]

\* operation(chunk1, chunk2, chunk3) on the trace of one block: out starts as
\* zeros; for ii in ints (ascending) the samples of idx are overwritten
Operation(mode, c1, c2, c3) ==
    [i \in 1..Len(c1) |->
        LET hit == {ii \in Unique(c3) : i \in Where(c3, ii)}
        IN  IF hit = {} THEN 0
            ELSE LET last == CHOOSE ii \in hit : \A jj \in hit : jj <= ii
                 IN  Broadcast(mode, c1, c2, Peak(c1, Where(c3, last)))]

\* how many times operation() assigns each sample of out
OperationWrites(c3) ==
    [i \in 1..Len(c3) |-> Cardinality({ii \in Unique(c3) : i \in Where(c3, ii)})]

\* da.map_blocks(operation, env, companion, troughs)
PeakPick(mode, e, c, t, plan) ==
    Concat([b \in 1..Len(plan) |->
              Operation(mode, BlockSeq(e, plan, b), BlockSeq(c, plan, b),
                        BlockSeq(t, plan, b))])

PeakPickWrites(t, plan) ==
    Concat([b \in 1..Len(plan) |-> OperationWrites(BlockSeq(t, plan, b))])

\* result[da.isnan(result)] = 0
ScrubNone(x) == x
Scrub(x) == [i \in 1..Len(x) |-> IF x[i] = NaN THEN 0 ELSE x[i]]

Mode(name) == IF name = "apparent_polarity" THEN "signed-peak" ELSE "take-companion"

(***************************************************************************)
(* relative_amplitude_change on one trace. A float quotient x / y of       *)
(* integers, y >= 0, is kept as the fraction [num, den]: den = 0 is +Inf   *)
(* (num > 0), -Inf (num < 0) or NaN (num = 0).                             *)
(***************************************************************************)
\* SignalProcess.first_derivative along the trace, times 2: the central
\* difference inside, the one-sided difference at the two ends
FirstDerivative2(x) ==
    [i \in 1..Len(x) |->
        IF Len(x) = 1 THEN 0
        ELSE IF i = 1 THEN 2 * (x[2] - x[1])
        ELSE IF i = Len(x) THEN 2 * (x[i] - x[i - 1])
        ELSE x[i + 1] - x[i - 1]]

\* result = env_prime / env
Divide(x, y) == [num |-> x, den |-> y]

IsNaN(q) == q.den = 0 /\ q.num = 0

\* da.clip(result, -1, 1): NaN stays NaN
ClipLowOnly(q) ==
    IF IsNaN(q) THEN q
    ELSE IF q.num < 0 - q.den THEN [num |-> -1, den |-> 1]
    ELSE q
Clip(q) ==
    IF IsNaN(q) THEN q
    ELSE IF q.num > q.den THEN [num |-> 1, den |-> 1]
    ELSE IF q.num < 0 - q.den THEN [num |-> -1, den |-> 1]
    ELSE q

RelativeAmplitudeChangeTrace(e) ==
    LET d2 == FirstDerivative2(e)
    IN  [i \in 1..Len(e) |-> Clip(Divide(d2[i], 2 * e[i]))]

\* -1 <= q <= 1
InUnitInterval(q) == q.den > 0 /\ 0 - q.den <= q.num /\ q.num <= q.den

(***************************************************************************)
(* SpecTrace                                                               *)
(***************************************************************************)
\* the companions: 1 everywhere, but v at sample m (m = 0: nowhere)
Companions(n) ==
    {[i \in 1..n |-> IF i = m THEN v ELSE 1] : m \in 0..n, v \in {-1, 0, NaN}}

\* the fast axis of n samples cut in at most MaxBlocks blocks
Plans(n) == {c \in SeqsUpTo(1..n, MaxBlocks) : SumSeq(c) = n}

\* the trace of the end-to-end scenario, in one block, as its own companion
ExampleTrace == <<1, 3, 5, 3, 1, 3, 5, 1>>

InitTrace ==
    /\ pc = "ready"
    /\ attr = "none"
    /\ \/ \E n \in 1..MaxLen :
             /\ env \in [1..n -> 0..MaxEnv]
             /\ comp \in Companions(n)
             /\ chunks \in {<<<<1>>, <<1>>, c>> : c \in Plans(n)}
       \/ /\ env = ExampleTrace
          /\ comp = ExampleTrace
          /\ chunks = <<<<1>>, <<1>>, <<Len(ExampleTrace)>>>>
    /\ kernel = <<1, 1, 1>>
    /\ res = NoArr
    /\ troughs = <<>>
    /\ writes = <<>>
    /\ picked = <<>>
    /\ result = <<>>
    /\ IdleHalo
    /\ IdleOps
    /\ IdleBlock

\* a peak-pick attribute is called: envelope, companion, troughs, the per-block
\* operation, and the NaN post-pass
PeakPickCall(name, r) ==
    /\ pc = "ready"
    /\ pc' = "done"
    /\ attr' = name
    /\ res' = r
    /\ IF res'.err = "none"
       THEN /\ troughs' = CumSum(LocalEventsBlocks(env, chunks[3]))
            /\ writes' = PeakPickWrites(troughs', chunks[3])
            /\ picked' = PeakPick(Mode(name), env, comp, troughs', chunks[3])
            /\ result' = Scrub(picked')
       ELSE UNCHANGED <<troughs, writes, picked, result>>
    /\ UNCHANGED <<chunks, kernel, env, comp>>
    /\ UNCHANGED haloVars
    /\ UNCHANGED opsVars
    /\ UNCHANGED blockVars

ResponsePhaseTrace ==
    PeakPickCall("response_phase", ResponsePhase(Arr(chunks), kernel))
ResponseFrequencyTrace ==
    PeakPickCall("response_frequency", ResponseFrequency(Arr(chunks), kernel))
ResponseAmplitudeTrace ==
    PeakPickCall("response_amplitude", ResponseAmplitude(Arr(chunks), kernel))
ApparentPolarityTrace ==
    PeakPickCall("apparent_polarity", ApparentPolarity(Arr(chunks), kernel))

RelativeAmplitudeChangeCall ==
    /\ pc = "ready"
    /\ pc' = "done"
    /\ attr' = "relative_amplitude_change"
    /\ res' = RelativeAmplitudeChange(Arr(chunks), kernel)
    /\ result' = RelativeAmplitudeChangeTrace(env)
    /\ UNCHANGED <<chunks, kernel, env, comp, troughs, writes, picked>>
    /\ UNCHANGED haloVars
    /\ UNCHANGED opsVars
    /\ UNCHANGED blockVars

NextTrace ==
    \/ ResponsePhaseTrace
    \/ ResponseFrequencyTrace
    \/ ResponseAmplitudeTrace
    \/ ApparentPolarityTrace

SpecTrace == InitTrace /\ [][NextTrace]_vars

(***************************************************************************)
(* SpecRac: relative_amplitude_change on one trace of the envelope.        *)
(***************************************************************************)
\* largest envelope sample in SpecRac
MaxAmp == 3

InitRac ==
    /\ pc = "ready"
    /\ attr = "none"
    /\ \E n \in 1..MaxLen :
          /\ env \in [1..n -> 0..MaxAmp]
          /\ chunks = <<<<1>>, <<1>>, <<n>>>>
    /\ comp = <<>>
    /\ kernel = <<1, 1, 1>>
    /\ res = NoArr
    /\ troughs = <<>>
    /\ writes = <<>>
    /\ picked = <<>>
    /\ result = <<>>
    /\ IdleHalo
    /\ IdleOps
    /\ IdleBlock

NextRac == RelativeAmplitudeChangeCall

SpecRac == InitRac /\ [][NextRac]_vars

Picked == pc = "done" /\ attr \in PeakPickAttrs /\ res.err = "none"

Plan == chunks[3]
TraceLen == Len(env)

Contiguous(S) == \A i \in S : \A j \in S : \A m \in i..j : m \in S

\* the samples of the whole trace that operation() selects in block b for id ii
Selected(b, ii) ==
    {BlockStart(Plan, b) + i - 1 : i \in Where(BlockSeq(troughs, Plan, b), ii)}

Selections ==
    {<<b, ii>> : b \in 1..Len(Plan), ii \in Unique(troughs)} \cap
    {s \in (1..Len(Plan)) \X Unique(troughs) :
        s[2] \in Unique(BlockSeq(troughs, Plan, s[1]))}

RECURSIVE SumCard(_)
SumCard(F) ==
    IF F = {} THEN 0
    ELSE LET s == CHOOSE x \in F : TRUE
         IN  Cardinality(Selected(s[1], s[2])) + SumCard(F \ {s})

\* C3: the index sets the peak-pick loop selects for the distinct segment ids
\* of a trace are pairwise disjoint, each a contiguous run, and together the
\* whole index range (their lengths add up to the trace length); the loop
\* writes every output sample exactly once.
C3_SegmentPartition ==
    Picked =>
        /\ \A s \in Selections : \A u \in Selections :
              s # u => Selected(s[1], s[2]) \cap Selected(u[1], u[2]) = {}
        /\ \A s \in Selections : Contiguous(Selected(s[1], s[2]))
        /\ UNION {Selected(s[1], s[2]) : s \in Selections} = 1..TraceLen
        /\ SumCard(Selections) = TraceLen
        /\ \A ii \in Unique(troughs) : Contiguous(Where(troughs, ii))
        /\ \A i \in 1..TraceLen : writes[i] = 1

\* a trace of two segments, cut in two blocks, was peak-picked
C3_Witness ==
    /\ Picked
    /\ Cardinality(Unique(troughs)) >= 2
    /\ Len(Plan) >= 2

\* the segments of the whole trace: the runs of equal segment id
Segment(ii) == Where(troughs, ii)

\* C4: in the take-companion attributes every output sample of a segment is
\* the companion's value at the segment's peak, the first index at which the
\* envelope is largest over the segment.
C4_TakeCompanion ==
    (Picked /\ Mode(attr) = "take-companion") =>
        \A ii \in Unique(troughs) : \A i \in Segment(ii) :
            picked[i] = comp[Peak(env, Segment(ii))]

\* C5: in apparent_polarity every output sample of a segment is the envelope
\* at the segment's peak times the sign of the companion there.
C5_SignedPeak ==
    (Picked /\ Mode(attr) = "signed-peak") =>
        \A ii \in Unique(troughs) : \A i \in Segment(ii) :
            picked[i] = Times(env[Peak(env, Segment(ii))],
                              Sign(comp[Peak(env, Segment(ii))]))

\* C6: the segment ids are the running sum of the strict-local-minimum
\* indicator of the trace's envelope: 0 at the first sample, one more at every
\* sample strictly below both its neighbours, unchanged elsewhere.
C6_SegmentLabeling ==
    Picked =>
        /\ troughs[1] = 0
        /\ \A i \in 2..TraceLen :
              troughs[i] - troughs[i - 1] =
                 IF i < TraceLen /\ env[i] < env[i - 1] /\ env[i] < env[i + 1]
                 THEN 1 ELSE 0

\* C9: a trace whose envelope has no strict local minimum is one segment, and
\* its output is constant: the value broadcast from the first index of the
\* trace-wide envelope maximum.
C9_NoMinimumOneSegment ==
    (Picked /\ \A i \in 1..TraceLen : LocalEvents(env)[i] = 0) =>
        /\ Unique(troughs) = {0}
        /\ \A i \in 1..TraceLen :
              picked[i] = Broadcast(Mode(attr), env, comp, Peak(env, 1..TraceLen))

\* C10: the returned volume holds no NaN: a sample the peak-pick pass made NaN
\* is 0, every other sample is what the pass made it.
C10_NaNScrubbed ==
    Picked =>
        \A i \in 1..TraceLen :
            /\ result[i] # NaN
            /\ picked[i] = NaN => result[i] = 0
            /\ picked[i] # NaN => result[i] = picked[i]

\* the pass made one segment NaN and another one not
C10_Witness ==
    /\ Picked
    /\ \E i \in 1..TraceLen : picked[i] = NaN
    /\ \E i \in 1..TraceLen : picked[i] # NaN /\ picked[i] # 0

RacDone == pc = "done" /\ attr = "relative_amplitude_change"

\* C7: every sample of relative_amplitude_change lies in [-1, 1], also where
\* the envelope is 0.
C7_RacBounded ==
    RacDone => \A i \in 1..TraceLen : InUnitInterval(result[i])

\* C7, amended: every sample is NaN or lies in [-1, 1]; it is NaN exactly where
\* the envelope and its derivative are both 0 (the quotient 0/0), and -1 or 1
\* where the envelope is 0 and the derivative is not.
C7_RacBoundedOrNaN ==
    RacDone =>
        \A i \in 1..TraceLen :
            /\ IsNaN(result[i]) <=> (env[i] = 0 /\ FirstDerivative2(env)[i] = 0)
            /\ ~IsNaN(result[i]) => InUnitInterval(result[i])
            /\ (env[i] = 0 /\ FirstDerivative2(env)[i] # 0) =>
                  result[i].den = 1 /\ result[i].num \in {-1, 1}

\* a trace with a zero-envelope sample clipped to 1 or -1, another one NaN, and
\* a quotient above 1 clipped
C7_Witness ==
    /\ RacDone
    /\ \E i \in 1..TraceLen : env[i] = 0 /\ ~IsNaN(result[i])
    /\ \E i \in 1..TraceLen : IsNaN(result[i])
    /\ \E i \in 1..TraceLen : env[i] > 0 /\ FirstDerivative2(env)[i] > 2 * env[i]

(***************************************************************************)
(* The same statements where the fast axis is one block.                   *)
(***************************************************************************)
OneBlock == Len(Plan) = 1

BroadcastInOneBlock ==
    (Picked /\ OneBlock) =>
        \A ii \in Unique(troughs) : \A i \in Segment(ii) :
            picked[i] = Broadcast(Mode(attr), env, comp, Peak(env, Segment(ii)))

LabelingInOneBlock == (Picked /\ OneBlock) => troughs = CumSum(LocalEvents(env))

\* the end-to-end scenario: segment ids [0,0,0,0,1,1,1,1], output all 5
ExampleScenario ==
    (Picked /\ env = ExampleTrace /\ Mode(attr) = "take-companion") =>
        /\ troughs = <<0, 0, 0, 0, 1, 1, 1, 1>>
        /\ picked = <<5, 5, 5, 5, 5, 5, 5, 5>>
        /\ result = picked

(***************************************************************************)
(* The block-wise peak pick against the whole-trace algorithm.             *)
(***************************************************************************)
\* minima over the whole trace, their running sum, and the peak taken over the
\* whole segment: the attribute with the fast axis in a single block
WholeTraceTroughs(e) == CumSum(LocalEventsBlocks(e, <<Len(e)>>))
WholeTracePick(mode, e, c) ==
    PeakPick(mode, e, c, WholeTraceTroughs(e), <<Len(e)>>)

\* C13: the peak-pick output of a trace is the same whether the fast axis lies
\* in one block or is cut in several: the block-wise computation equals the
\* whole-trace algorithm, also for a minimum at a block edge and for a segment
\* spanning a block boundary.
C13_ChunkingIndependent ==
    Picked =>
        /\ troughs = WholeTraceTroughs(env)
        /\ picked = WholeTracePick(Mode(attr), env, comp)
        /\ result = Scrub(WholeTracePick(Mode(attr), env, comp))

\* the segment ids of the running sum do not depend on the cut when no strict
\* minimum of the trace is the first or last sample of a block
TroughsIndependentAwayFromEdges ==
    (Picked /\ \A b \in 1..Len(Plan) :
                  /\ LocalEvents(env)[BlockStart(Plan, b)] = 0
                  /\ LocalEvents(env)[BlockStart(Plan, b) + Plan[b] - 1] = 0) =>
        troughs = WholeTraceTroughs(env)

(***************************************************************************)
(* SpecOps: the sequence of array operations an attribute performs.        *)
(*                                                                         *)
(* The body of an attribute is the sequence of its array operations, the   *)
(* attributes it calls written out in place.  The operations work on a     *)
(* stack of volumes whose top is the volume bound last; each volume keeps  *)
(* its layout and the halo extensions it still carries.                    *)
(***************************************************************************)
\* darray, chunks_init = self.create_array(darray, kernel): rebinds the top
Ext(k) == [op |-> "create_array", k |-> k, n |-> 1]
\* darray.map_blocks(f), da.absolute(x), first_derivative(x), ...: rebinds the top
Map == [op |-> "map_blocks", k |-> NoKernel, n |-> 1]
\* result = util.trim_dask_array(result, kernel): rebinds the top
Trim(k) == [op |-> "trim_dask_array", k |-> k, n |-> 1]
\* a local read again: the n-th volume from the top is bound once more
Use(n) == [op |-> "use", k |-> NoKernel, n |-> n]
\* an operation of the n topmost volumes: x / y, da.hypot(x, y) for two,
\* da.map_blocks(operation, env, companion, troughs) for three
Join(n) == [op |-> "combine", k |-> NoKernel, n |-> n]
\* return(result): the top goes to the caller, the n locals under it go away
Ret(n) == [op |-> "return", k |-> NoKernel, n |-> n]

HilbertOps(k) == <<Ext(k), Map, Trim(k), Ret(0)>>

EnvelopeOps(k) == <<Ext(k), Map, Map, Trim(k), Ret(0)>>

InstantaneousPhaseOps(k) == <<Ext(k), Map, Map, Trim(k), Ret(0)>>

CosineInstantaneousPhaseOps(k) ==
    <<Ext(NoKernel)>> \o InstantaneousPhaseOps(k) \o <<Map, Ret(0)>>

\* env is read twice: by first_derivative and by the division
RelativeAmplitudeChangeOps(k) ==
    <<Ext(NoKernel)>> \o EnvelopeOps(k) \o <<Use(1), Map, Join(2), Map, Ret(0)>>

AmplitudeAccelerationOps(k) ==
    <<Ext(NoKernel)>> \o RelativeAmplitudeChangeOps(k) \o <<Map, Ret(0)>>

\* create_array(darray, kernel=(1,1,25)), then instantaneous_phase(darray, kernel)
InstantaneousFrequencyOps(k) ==
    <<Ext(DefaultKernel)>> \o InstantaneousPhaseOps(k)
        \o <<Map, Map, Map, Map, Ret(0)>>

InstantaneousBandwidthOps(k) ==
    <<Ext(NoKernel)>> \o RelativeAmplitudeChangeOps(k) \o <<Map, Ret(0)>>

DominantFrequencyOps(k) ==
    <<Ext(NoKernel), Use(1)>> \o InstantaneousFrequencyOps(k)
        \o <<Use(2)>> \o InstantaneousBandwidthOps(k) \o <<Join(2), Ret(1)>>

FrequencyChangeOps(k) ==
    <<Ext(NoKernel)>> \o InstantaneousFrequencyOps(k) \o <<Map, Ret(0)>>

SweetnessOps(k) ==
    <<Ext(NoKernel), Use(1)>> \o InstantaneousFrequencyOps(k)
        \o <<Map, Use(2)>> \o EnvelopeOps(k) \o <<Join(2), Ret(1)>>

QualityFactorOps(k) ==
    <<Ext(NoKernel), Use(1)>> \o InstantaneousFrequencyOps(k)
        \o <<Use(2)>> \o RelativeAmplitudeChangeOps(k) \o <<Map, Join(2), Ret(1)>>

\* troughs = env.map_blocks(local_events).cumsum(); da.map_blocks(operation,
\* env, companion, troughs); result[da.isnan(result)] = 0
PeakPickOps == <<Use(2), Map, Map, Join(3), Map>>

ResponsePhaseOps(k) ==
    <<Ext(NoKernel), Use(1)>> \o EnvelopeOps(k)
        \o <<Use(2)>> \o InstantaneousPhaseOps(k) \o PeakPickOps \o <<Ret(1)>>

ResponseFrequencyOps(k) ==
    <<Ext(NoKernel), Use(1)>> \o EnvelopeOps(k)
        \o <<Use(2)>> \o InstantaneousFrequencyOps(k) \o PeakPickOps \o <<Ret(1)>>

\* the companion is darray itself
ResponseAmplitudeOps(k) ==
    <<Ext(NoKernel), Use(1)>> \o EnvelopeOps(k) \o <<Use(2)>> \o PeakPickOps \o <<Ret(1)>>

ApparentPolarityOps(k) ==
    <<Ext(NoKernel), Use(1)>> \o EnvelopeOps(k) \o <<Use(2)>> \o PeakPickOps \o <<Ret(1)>>

AllAttrs == PublicAttrs \cup {"cosine_instantaneous_phase", "amplitude_acceleration"}

Program(name, k) ==
    CASE name = "hilbert" -> HilbertOps(k)
      [] name = "envelope" -> EnvelopeOps(k)
      [] name = "instantaneous_phase" -> InstantaneousPhaseOps(k)
      [] name = "cosine_instantaneous_phase" -> CosineInstantaneousPhaseOps(k)
      [] name = "relative_amplitude_change" -> RelativeAmplitudeChangeOps(k)
      [] name = "amplitude_acceleration" -> AmplitudeAccelerationOps(k)
      [] name = "instantaneous_frequency" -> InstantaneousFrequencyOps(k)
      [] name = "instantaneous_bandwidth" -> InstantaneousBandwidthOps(k)
      [] name = "dominant_frequency" -> DominantFrequencyOps(k)
      [] name = "frequency_change" -> FrequencyChangeOps(k)
      [] name = "sweetness" -> SweetnessOps(k)
      [] name = "quality_factor" -> QualityFactorOps(k)
      [] name = "response_phase" -> ResponsePhaseOps(k)
      [] name = "response_frequency" -> ResponseFrequencyOps(k)
      [] name = "response_amplitude" -> ResponseAmplitudeOps(k)
      [] OTHER -> ApparentPolarityOps(k)

\* a volume: its layout and the halo extensions not trimmed yet, oldest first,
\* each with its kernel and whether a per-block operator ran on it since
Volume(a, p) == [arr |-> a, pend |-> p]
Halo(k) == [k |-> k, ran |-> FALSE]

\* create_array(darray, kernel)
ExtendVolume(v, k) ==
    Volume(CreateArray(v.arr, k),
           IF k = NoKernel THEN v.pend ELSE Append(v.pend, Halo(k)))

\* a per-block operator runs on the blocks, halo included
MapVolume(v) ==
    Volume(MapBlocks(v.arr), [i \in 1..Len(v.pend) |-> [v.pend[i] EXCEPT !.ran = TRUE]])

\* util.trim_dask_array(v, k) takes the halo of kernel k off again
TrimVolumeOps(v, k) ==
    Volume(TrimDaskArray(v.arr, k),
           IF v.pend # <<>> /\ v.pend[Len(v.pend)].k = k
           THEN SubSeq(v.pend, 1, Len(v.pend) - 1) ELSE v.pend)

\* the operands' halos stay in the result of an elementwise operation
JoinVolumes(vs) ==
    IF Len(vs) = 2
    THEN Volume(Combine(vs[1].arr, vs[2].arr), vs[1].pend \o vs[2].pend)
    ELSE Volume(MapBlocks3(vs[1].arr, vs[2].arr, vs[3].arr),
                vs[1].pend \o vs[2].pend \o vs[3].pend)

\* one block per side axis, up to MaxBlocks along the fast axis
OpsChunks ==
    {<<<<c1>>, <<c2>>, c3>> : c1 \in SideChunkSizes, c2 \in SideChunkSizes,
                              c3 \in SeqsUpTo(FastChunkSizes, MaxBlocks)}

InitOps ==
    /\ pc = "ready"
    /\ attr = "none"
    /\ chunks \in OpsChunks
    /\ kernel \in {<<k1, k2, k3>> : k1 \in SideKernels, k2 \in SideKernels,
                                  k3 \in FastKernels}
    /\ res = NoArr
    /\ IdleHalo
    /\ IdleTrace
    /\ IdleOps
    /\ IdleBlock

\* the attribute is called on the volume
CallAttribute ==
    /\ pc = "ready"
    /\ pc' = "run"
    /\ \E name \in AllAttrs :
          /\ attr' = name
          /\ todo' = Program(name, kernel)
    /\ stack' = <<Volume(Arr(chunks), <<>>)>>
    /\ UNCHANGED shapeVars
    /\ UNCHANGED haloVars
    /\ UNCHANGED traceVars
    /\ UNCHANGED blockVars

Top == stack[Len(stack)]
Under(n) == SubSeq(stack, 1, Len(stack) - n)
Topmost(n) == SubSeq(stack, Len(stack) - n + 1, Len(stack))
Doing(o) == pc = "run" /\ todo # <<>> /\ Head(todo).op = o

\* the operation leaves the stack s: an error of the array runtime leaves the
\* attribute, otherwise the next operation is up, and the last return ends it
Advance(s) ==
    /\ stack' = s
    /\ IF s[Len(s)].arr.err # "none"
       THEN todo' = <<>> /\ pc' = "done" /\ res' = s[Len(s)].arr
       ELSE /\ todo' = Tail(todo)
            /\ IF todo' = <<>>
               THEN pc' = "done" /\ res' = s[Len(s)].arr
               ELSE pc' = "run" /\ res' = res
    /\ UNCHANGED <<attr, chunks, kernel>>
    /\ UNCHANGED haloVars
    /\ UNCHANGED traceVars
    /\ UNCHANGED blockVars

ExtendStep ==
    /\ Doing("create_array")
    /\ Advance(Append(Under(1), ExtendVolume(Top, Head(todo).k)))

MapStep ==
    /\ Doing("map_blocks")
    /\ Advance(Append(Under(1), MapVolume(Top)))

TrimStep ==
    /\ Doing("trim_dask_array")
    /\ Advance(Append(Under(1), TrimVolumeOps(Top, Head(todo).k)))

UseStep ==
    /\ Doing("use")
    /\ Advance(Append(stack, stack[Len(stack) - Head(todo).n + 1]))

JoinStep ==
    /\ Doing("combine")
    /\ Advance(Append(Under(Head(todo).n), JoinVolumes(Topmost(Head(todo).n))))

ReturnStep ==
    /\ Doing("return")
    /\ Advance(Append(Under(Head(todo).n + 1), Top))

NextOps ==
    \/ CallAttribute
    \/ ExtendStep
    \/ MapStep
    \/ TrimStep
    \/ UseStep
    \/ JoinStep
    \/ ReturnStep

SpecOps == InitOps /\ [][NextOps]_vars

\* the operation that is up keeps extensions and trims paired
PairedAt(o) ==
    /\ (o.op = "create_array" /\ o.k # NoKernel) => Top.pend = <<>>
    /\ o.op = "trim_dask_array" =>
           /\ Top.pend # <<>>
           /\ Top.pend[Len(Top.pend)] = [k |-> o.k, ran |-> TRUE]
    /\ o.op = "combine" =>
           \A i \in 1..o.n : Topmost(o.n)[i].pend = <<>>
    /\ o.op = "return" => Top.pend = <<>>

Returned == pc = "done" /\ res.err = "none" /\ stack # <<>>

\* C11: in the operations of every attribute, each halo extension
\* (create_array with a kernel) is followed, after the per-block operator and
\* before the volume is returned or combined, by the one trim with the same
\* kernel; no volume that still carries a halo is extended again, combined or
\* returned.
C11_ExtendTrimPaired ==
    /\ (pc = "run" /\ todo # <<>>) => PairedAt(Head(todo))
    /\ Returned => Top.pend = <<>>

\* the attributes that call instantaneous_frequency
FrequencyAttrs ==
    {"instantaneous_frequency", "dominant_frequency", "frequency_change",
     "sweetness", "quality_factor", "response_frequency"}

\* the pairing holds in the attributes that do not go through
\* instantaneous_frequency
PairedWithoutFrequency ==
    attr \notin FrequencyAttrs =>
        /\ (pc = "run" /\ todo # <<>>) => PairedAt(Head(todo))
        /\ Returned => Top.pend = <<>>

\* instantaneous_frequency returns its volume with the halo of (1,1,25) on
FrequencyReturnsExtended ==
    (Returned /\ attr = "instantaneous_frequency") =>
        /\ Top.pend = <<[k |-> DefaultKernel, ran |-> TRUE]>>
        /\ Shape(res.chunks)[3] = Shape(chunks)[3] + 24 * Len(chunks[3])

\* the layout the layout operators give the attribute
Layout(name, x, k) ==
    CASE name = "hilbert" -> Hilbert(x, k)
      [] name = "envelope" -> Envelope(x, k)
      [] name = "instantaneous_phase" -> InstantaneousPhase(x, k)
      [] name = "cosine_instantaneous_phase" -> CosineInstantaneousPhase(x, k)
      [] name = "relative_amplitude_change" -> RelativeAmplitudeChange(x, k)
      [] name = "amplitude_acceleration" -> AmplitudeAcceleration(x, k)
      [] name = "instantaneous_frequency" -> InstantaneousFrequency(x, k)
      [] name = "instantaneous_bandwidth" -> InstantaneousBandwidth(x, k)
      [] name = "dominant_frequency" -> DominantFrequency(x, k)
      [] name = "frequency_change" -> FrequencyChange(x, k)
      [] name = "sweetness" -> Sweetness(x, k)
      [] name = "quality_factor" -> QualityFactor(x, k)
      [] name = "response_phase" -> ResponsePhase(x, k)
      [] name = "response_frequency" -> ResponseFrequency(x, k)
      [] name = "response_amplitude" -> ResponseAmplitude(x, k)
      [] OTHER -> ApparentPolarity(x, k)

\* the operations of an attribute build the layout of its layout operator
OpsBuildLayout ==
    (pc = "done" /\ stack # <<>>) => res = Layout(attr, Arr(chunks), kernel)

(***************************************************************************)
(* SpecBlock: operation(chunk1, chunk2, chunk3) on a block of several      *)
(* traces, one iteration of its (i, j) loop at a time, in two runs.        *)
(*                                                                         *)
(* The two runs, a and b, get the same trace at the position `focus` and   *)
(* different traces at the other position; each run takes the positions    *)
(* in an order of its own.                                                 *)
(***************************************************************************)
\* samples of a trace of the block
MaxPick == 2

\* out.shape[:-1] of the block
BlockSides == <<1, 2>>
\* self.xp.ndindex(out.shape[:-1])
NdIndex(sides) == {<<i, j>> : i \in 0..(sides[1] - 1), j \in 0..(sides[2] - 1)}

Runs == {"a", "b"}

\* the traces of a block, n samples long: the reference is any sequence of
\* the two levels 0 and 1; the companion is s, 2s, 3s, ... (its value tells
\* the index it was taken at); the segment ids start at 0 and go up by steps
\* of 0 or 1
SegmentIds(n) == {CumSum(d) : d \in {e \in [1..n -> {0, 1}] : e[1] = 0}}
BlockTraces(n) ==
    {[c1 |-> a, c2 |-> [i \in 1..n |-> s * i], c3 |-> t] :
        a \in [1..n -> {0, 1}], s \in {-1, 1}, t \in SegmentIds(n)}

\* a trace that differs from y in one of the three arrays
Channels == {"chunk1", "chunk2", "chunk3"}
Differing(y, ch) ==
    LET n == Len(y.c1)
    IN  CASE ch = "chunk1" -> [y EXCEPT !.c1 = [i \in 1..n |-> 1 - y.c1[i]]]
          [] ch = "chunk2" -> [y EXCEPT !.c2 = [i \in 1..n |-> 0 - y.c2[i]]]
          [] OTHER -> [y EXCEPT !.c3 = IF y.c3[n] = 0 THEN [i \in 1..n |-> i - 1]
                                       ELSE [i \in 1..n |-> 0]]

\* self.xp.zeros(chunk1.shape)
Zeros(n) == [i \in 1..n |-> 0]

\* chunk[i, j, :]
TraceOfFirst(chunk, t) == chunk[<<0, 0>>]
TraceOf(chunk, t) == chunk[t]

\* out[i, j, idx] = ... over the segments of the trace at t: the samples of
\* the trace's own slice are written, the other slices are left alone
WriteTrace(o, t, row) == [o EXCEPT ![t] = row]

\* one iteration of `for i,j in self.xp.ndindex(out.shape[:-1])`
Iteration(mode, k1, k2, k3, o, t) ==
    WriteTrace(o, t, Operation(mode, TraceOf(k1, t), TraceOf(k2, t), TraceOf(k3, t)))

InitBlock ==
    /\ pc = "run"
    /\ attr \in {"response_phase", "apparent_polarity"}
    /\ kernel = <<1, 1, 1>>
    /\ res = NoArr
    /\ focus \in NdIndex(BlockSides)
    /\ \E n \in 1..MaxPick : \E x \in BlockTraces(n), y \in BlockTraces(n), ch \in Channels :
          LET z == Differing(y, ch)
              at(r, t) == IF t = focus THEN x ELSE IF r = "a" THEN y ELSE z
          IN  /\ chunks = <<<<BlockSides[1]>>, <<BlockSides[2]>>, <<n>>>>
              /\ chunk1 = [r \in Runs |-> [t \in NdIndex(BlockSides) |-> at(r, t).c1]]
              /\ chunk2 = [r \in Runs |-> [t \in NdIndex(BlockSides) |-> at(r, t).c2]]
              /\ chunk3 = [r \in Runs |-> [t \in NdIndex(BlockSides) |-> at(r, t).c3]]
              /\ outs = [r \in Runs |-> [t \in NdIndex(BlockSides) |-> Zeros(n)]]
    /\ visited = [r \in Runs |-> {}]
    /\ IdleHalo
    /\ IdleTrace
    /\ IdleOps

\* run r does the iteration of the trace position t
Iterate(name, r, t) ==
    /\ pc = "run"
    /\ attr = name
    /\ t \notin visited[r]
    /\ visited' = [visited EXCEPT ![r] = @ \cup {t}]
    /\ outs' = [outs EXCEPT ![r] =
                   Iteration(Mode(name), chunk1[r], chunk2[r], chunk3[r], @, t)]
    /\ UNCHANGED <<pc, attr, chunk1, chunk2, chunk3, focus>>
    /\ UNCHANGED shapeVars
    /\ UNCHANGED haloVars
    /\ UNCHANGED traceVars
    /\ UNCHANGED opsVars

ResponsePhaseIteration ==
    \E r \in Runs, t \in NdIndex(BlockSides) : Iterate("response_phase", r, t)

ApparentPolarityIteration ==
    \E r \in Runs, t \in NdIndex(BlockSides) : Iterate("apparent_polarity", r, t)

NextBlock ==
    \/ ResponsePhaseIteration
    \/ ApparentPolarityIteration

SpecBlock == InitBlock /\ [][NextBlock]_vars

\* the other trace position of the block
Others == NdIndex(BlockSides) \ {focus}
AgreeOnFocus ==
    /\ chunk1["a"][focus] = chunk1["b"][focus]
    /\ chunk2["a"][focus] = chunk2["b"][focus]
    /\ chunk3["a"][focus] = chunk3["b"][focus]
DifferElsewhere ==
    \E t \in Others :
        <<chunk1["a"][t], chunk2["a"][t], chunk3["a"][t]>>
            # <<chunk1["b"][t], chunk2["b"][t], chunk3["b"][t]>>

\* C12: within a block the output of a trace position is a function of the
\* reference, companion and segment ids at that position only, and an
\* iteration writes its own slice of out only: two runs whose inputs agree on
\* the position and differ elsewhere hold the same output there once both
\* have done its iteration, whatever the order of the iterations; a slice
\* not iterated yet is still zeros, and a slice iterated holds what
\* operation() makes of its own three traces.
C12_CrossTraceIndependent ==
    /\ (AgreeOnFocus /\ focus \in visited["a"] /\ focus \in visited["b"]) =>
           outs["a"][focus] = outs["b"][focus]
    /\ \A r \in Runs : \A t \in NdIndex(BlockSides) :
           IF t \in visited[r]
           THEN outs[r][t] =
                    Operation(Mode(attr), chunk1[r][t], chunk2[r][t], chunk3[r][t])
           ELSE outs[r][t] = Zeros(Len(chunk1[r][t]))

\* both runs are through, in blocks that differ off the focus and give
\* different outputs there, the focus trace holding two segments
C12_Witness ==
    /\ AgreeOnFocus /\ DifferElsewhere
    /\ \A r \in Runs : visited[r] = NdIndex(BlockSides)
    /\ \E t \in Others : outs["a"][t] # outs["b"][t]
    /\ Cardinality(Unique(chunk3["a"][focus])) = 2
    /\ outs["a"][focus] # Zeros(Len(chunk1["a"][focus]))

====
